---- MODULE Spec2Model ----
(***************************************************************************)
(* Heist Runner: the leaderboard service (server/storage.ts,               *)
(* server/routes.ts, shared schema) and the game component's simulation    *)
(* core (gameRef, resetGame, gameOver, spawnVine, spawnObstacle, update,   *)
(* gameLoop).                                                              *)
(*                                                                         *)
(* Two specifications share the variables:                                 *)
(*   SpecStore  the HTTP routes over MemStorage, driven by any client;     *)
(*   Spec       the game session: lifecycle commands, input intents, the   *)
(*              per-frame update() and the score submission it dispatches; *)
(*   SpecRace   the same session with the animation frame that the loop    *)
(*              requests after the session's last update(): the browser    *)
(*              may deliver it before React cleans the loop's effect up.   *)
(***************************************************************************)
EXTENDS Integers, Sequences, FiniteSets, TLC

VARIABLES
  highScores,   \* MemStorage.highScores: Map values in insertion order
  nextId,       \* number of ids randomUUID() has handed out
  req,          \* the last HTTP request: [route, limit, body]
  res,          \* the last HTTP response: [status, body, error, details]
  invoked,      \* the storage method the last request reached ("none" if none)
  game,         \* gameRef.current
  rng,          \* position of the spawner's Math.random() in RandomStream
  gameState,    \* the component's gameState
  inflight,     \* score submissions dispatched and not yet answered
  mutation,     \* status of submitScoreMutation
  raf,          \* the animation frame requested by a loop whose session is over
  log           \* what the last step of the session did (observation only)

storeVars == <<highScores, nextId, req, res, invoked>>
gameVars == <<game, rng, gameState, inflight, mutation, raf, log>>
vars == <<highScores, nextId, req, res, invoked, game, rng, gameState, inflight,
          mutation, raf, log>>

----------------------------------------------------------------------------
(* Leaderboard service                                                      *)

Names == {"Al", "al", "Bo", "Cy"}

\* String.prototype.toLowerCase on the player names of the model
toLowerCase(s) ==
  CASE s = "Al" -> "al"
    [] s = "al" -> "al"
    [] s = "Bo" -> "bo"
    [] s = "Cy" -> "cy"
    [] OTHER -> s

\* A JSON value of a request body field: absent, a string, or a number that
\* is an integer (kind "int") or not (kind "frac", n its integer part)
Absent == [kind |-> "absent", s |-> "", n |-> 0]
Str(s) == [kind |-> "string", s |-> s, n |-> 0]
Num(n) == [kind |-> "int", s |-> "", n |-> n]
Frac(n) == [kind |-> "frac", s |-> "", n |-> n]

\* insertHighScoreSchema: createInsertSchema(highScores).omit({id}):
\* playerName text notNull -> string; score, distance, coins integer notNull -> int
safeParse(body) ==
  /\ body.playerName.kind = "string"
  /\ body.score.kind = "int"
  /\ body.distance.kind = "int"
  /\ body.coins.kind = "int"

\* parseResult.data
ParsedData(body) ==
  [playerName |-> body.playerName.s, score |-> body.score.n,
   distance |-> body.distance.n, coins |-> body.coins.n]

\* the find comparing the names as they are spelled
FindPlayerExact(scores, name) ==
  LET hits == {i \in 1..Len(scores) :
                 scores[i].playerName = name}
  IN IF hits = {} THEN 0 ELSE CHOOSE i \in hits : \A j \in hits : i <= j

\* Array.prototype.find over the Map values: index of the first entry of the
\* same player (case-insensitive), 0 when there is none
FindPlayer(scores, name) ==
  LET hits == {i \in 1..Len(scores) :
                 toLowerCase(scores[i].playerName) = toLowerCase(name)}
  IN IF hits = {} THEN 0 ELSE CHOOSE i \in hits : \A j \in hits : i <= j

\* MemStorage.createHighScore: the store after the call and the entry returned
CreateHighScoreMut(scores, idc, ins) ==
  LET i == FindPlayer(scores, ins.playerName)
  IN IF i # 0
     THEN IF ins.score >= scores[i].score
          THEN LET upd == [id |-> scores[i].id, playerName |-> ins.playerName,
                           score |-> ins.score, distance |-> ins.distance,
                           coins |-> ins.coins]
               IN [store |-> [scores EXCEPT ![i] = upd], ids |-> idc, ret |-> upd]
          ELSE [store |-> scores, ids |-> idc, ret |-> scores[i]]
     ELSE LET new == [id |-> idc + 1, playerName |-> ins.playerName,
                      score |-> ins.score, distance |-> ins.distance,
                      coins |-> ins.coins]
          IN [store |-> Append(scores, new), ids |-> idc + 1, ret |-> new]

CreateHighScore(scores, idc, ins) ==
  LET i == FindPlayer(scores, ins.playerName)
  IN IF i # 0
     THEN IF ins.score > scores[i].score
          THEN LET upd == [id |-> scores[i].id, playerName |-> ins.playerName,
                           score |-> ins.score, distance |-> ins.distance,
                           coins |-> ins.coins]
               IN [store |-> [scores EXCEPT ![i] = upd], ids |-> idc, ret |-> upd]
          ELSE [store |-> scores, ids |-> idc, ret |-> scores[i]]
     ELSE LET new == [id |-> idc + 1, playerName |-> ins.playerName,
                      score |-> ins.score, distance |-> ins.distance,
                      coins |-> ins.coins]
          IN [store |-> Append(scores, new), ids |-> idc + 1, ret |-> new]

\* Array.prototype.sort((a, b) => b.score - a.score): stable, descending score
RECURSIVE InsertSorted(_, _)
InsertSorted(sorted, e) ==
  IF sorted = <<>> THEN <<e>>
  ELSE IF Head(sorted).score >= e.score
       THEN <<Head(sorted)>> \o InsertSorted(Tail(sorted), e)
       ELSE <<e>> \o sorted

RECURSIVE SortByScore(_)
SortByScore(s) ==
  IF s = <<>> THEN <<>>
  ELSE InsertSorted(SortByScore(SubSeq(s, 1, Len(s) - 1)), s[Len(s)])

\* Array.prototype.slice(0, limit)
Slice0(s, limit) ==
  LET end == IF limit >= 0
             THEN (IF limit < Len(s) THEN limit ELSE Len(s))
             ELSE (IF Len(s) + limit > 0 THEN Len(s) + limit ELSE 0)
  IN SubSeq(s, 1, end)

\* MemStorage.getHighScores(limit)
GetHighScoresMut(scores, limit) == Slice0(scores, limit)

GetHighScores(scores, limit) == Slice0(SortByScore(scores), limit)

\* The limit query parameters of the model and parseInt on each
\* (nan: the result is NaN; "none": the request gives no limit)
LimitParams == {"none", "abc", "0", "-1", "1", "2", "3", "5"}

parseInt(q) ==
  CASE q = "0" -> [nan |-> FALSE, n |-> 0]
    [] q = "-1" -> [nan |-> FALSE, n |-> -1]
    [] q = "1" -> [nan |-> FALSE, n |-> 1]
    [] q = "2" -> [nan |-> FALSE, n |-> 2]
    [] q = "3" -> [nan |-> FALSE, n |-> 3]
    [] q = "5" -> [nan |-> FALSE, n |-> 5]
    [] OTHER -> [nan |-> TRUE, n |-> 0]

DEFAULT_LIMIT == 10

\* parseInt(req.query.limit as string) || 10
RouteLimit(q) ==
  LET p == parseInt(q)
  IN IF p.nan \/ p.n = 0 THEN DEFAULT_LIMIT ELSE p.n

\* The request bodies of the model
Bodies ==
  [playerName : {Str(n) : n \in Names} \cup {Absent},
   score : {Num(n) : n \in {-1, 0, 1, 2}} \cup {Frac(1), Absent},
   distance : {Num(0), Absent},
   coins : {Num(0)}]

NoBody == [playerName |-> Absent, score |-> Absent, distance |-> Absent, coins |-> Absent]

\* parseResult.error.issues: the fields the schema rejects
Issues(body) ==
  {f \in {"playerName", "score", "distance", "coins"} :
     body[f].kind # (IF f = "playerName" THEN "string" ELSE "int")}

----------------------------------------------------------------------------
(* Game core: units                                                         *)
(*                                                                          *)
(* Lengths are in cells of 10 source pixels and one step of update() in the *)
(* model stands for 10 source frames, so velocities keep their source       *)
(* values (6 px/frame = 6 cells/step), per-frame velocity increments are    *)
(* taken 10 times (rounded to whole cells/step, at least 1), frame counters *)
(* are divided by 10 (rounded up) and pixel lengths are divided by 10.      *)
(* police.x and police.speed are kept in tenths (POLICE_SPEED 6.8 = 68).    *)
(* Angles are in units of 3 degrees.  CHECKPOINT_DISTANCE and               *)
(* VICTORY_DISTANCE are shortened so that a bounded session reaches them.   *)
(* Math.random() reads a repeating stream entered at any position.         *)

GRAVITY == 6                  \* 0.6 per frame
JUMP_FORCE == -14
BASE_GROUND_Y == 35           \* 350
PLAYER_WIDTH == 4             \* 40
PLAYER_HEIGHT == 5            \* 50
SLIDE_HEIGHT == 2             \* 25
PLAYER_BASE_SPEED == 6
POLICE_SPEED == 68            \* 6.8, in tenths
CANVAS_WIDTH == 96            \* 960
CANVAS_HEIGHT == 54           \* 540
THE_ABYSS == 200              \* 2000
GAP_FLATTEN_RANGE == 12       \* 120
VINE_WALL_BUFFER == 22        \* 220
VINE_SPIKE_BUFFER == 26       \* 260
VINE_GRAB_RADIUS == 7         \* 70
GLIDE_CHARGE_DISTANCE == 500
GLIDE_CHARGE_SECONDS == 30    \* 0.5 s, in frames of 1/60 s
VICTORY_DISTANCE == 1800      \* 20000, shortened
CHECKPOINT_DISTANCE == 900    \* 10000, shortened

\* Literals of resetGame / gameRef
POLICE_START_X == -200        \* police.x = -200 px, in tenths of a cell
INITIAL_TERRAIN_COUNT == 20   \* generateTerrain(0, 20)
EXTEND_TERRAIN_COUNT == 10    \* generateTerrain(game.nextTerrainX, 10)
PLANE_RESET_X == -20          \* plane.x = -200
PLANE_Y == 10                 \* plane.y = 100

\* Literals of gameOver (respawn)
RESPAWN_HEIGHT == 10          \* player.y = BASE_GROUND_Y - 100
RESPAWN_INVINCIBLE == 12      \* invincible = 120 frames
RESPAWN_POLICE_BACK == 60     \* police.x = player.x - 600

\* Literals of generateTerrain
SEGMENT_MIN_WIDTH == 15       \* 150 + Math.random() * 200
SEGMENT_EXTRA_WIDTH == 20
HEIGHT_VARIANCE == 8          \* (Math.random() - 0.5) * 80
TERRAIN_MIN_Y == 28           \* Math.max(280, ...)
TERRAIN_MAX_Y == 40           \* Math.min(400, ...)

\* Literals of spawnObstacle / spawnVine / spawnCoin
WARNING_WIDTH == 4
WARNING_HEIGHT == 8
CHASM_LEAD == 50              \* chasmX = worldX + 500
CHASM_MIN_WIDTH == 80         \* 800 + Math.random() * 400
CHASM_EXTRA_WIDTH == 40
GAP_HEIGHT == 30
CHASM_VINE_BEFORE == 14       \* preChasmVineX = chasmX - 140
CHASM_VINE_PERCENT == 45      \* midChasmVineX = chasmX + width * 0.45
PRE_CHASM_VINE_LENGTH == 24
MID_CHASM_VINE_LENGTH == 22
PRE_CHASM_VINE_ANGLE == -10   \* -Math.PI / 6
MID_CHASM_VINE_ANGLE == -6    \* -Math.PI / 10
MID_CHASM_ANCHOR_Y == 3
VINE_ANCHOR_Y == 2            \* anchorY ?? 20
VINE_MIN_LENGTH == 18         \* 180 + Math.random() * 80
VINE_EXTRA_LENGTH == 8
VINE_ANGLE == -15             \* -Math.PI / 4
SPIKE_WIDTH == 3
SPIKE_HEIGHT == 4
BEAM_WIDTH == 4
GAP_MIN_WIDTH == 10           \* 100 + Math.random() * 150
GAP_EXTRA_WIDTH == 15
RAMP_WIDTH == 12
RAMP_HEIGHT == 6
COIN_ROW_STEP == 5            \* groundY - 80, - 130, - 180
COIN_ROW_BASE == 8

\* Literals of update
SLOPE_PROBE == 1              \* getTerrainHeight(p.x + 5, true): 5 px, rounded up
UPHILL_MIN_SPEED == 4
UPHILL_DRAG == 1              \* 0.05 per frame
DOWNHILL_BOOST == 1           \* 0.05 per frame
SLIDE_BOOST == 15             \* 1.5 per frame
SPEED_CAP == 50
FLAT_CATCHUP == 1             \* 0.1 per frame
AIR_DRAG == 1                 \* 0.05 per frame
FLAT_FRICTION == 99           \* p.vx *= 0.999 per frame, in percent
HELI_BRAKE == 95              \* heli.vx *= 0.95, in percent
HELI_STOP_PERCENT == 70       \* game.cameraX + CANVAS_WIDTH * 0.7
HELI_WIGGLE == 19             \* Math.sin(game.frameCount * 0.1), 1 rad per step
DISTANCE_PER_SPEED == 5       \* distanceTraveled += p.vx * 0.5, 10 frames
DIFFICULTY_DISTANCE == 5000
SCORE_PER_DISTANCE == 10
SCORE_PER_COIN == 100
POLICE_WIDTH == 40            \* game.police.x + 40, in tenths: 4 cells
GROUND_REACH == 1             \* p.y >= groundY - PLAYER_HEIGHT - 5
AIRBORNE_MARGIN == 1          \* p.y + p.height < groundY - 5
LANDING_MARGIN == 0           \* playerBottom >= currentGroundY - 2
FALLING_MARGIN == 2           \* playerBottom < currentGroundY - 15
GLIDE_MAX_FALL == 2
GLIDE_GRAVITY == 1            \* GRAVITY * 0.2
GLIDE_DRAIN == 10             \* 1/60 s per frame
MUSHROOM_RADIUS == 4
MUSHROOM_BOUNCE == -20
MUSHROOM_BOOST == 2
RAMP_LAUNCH == -8
RAMP_BOOST == 3
MIN_SWING_TIME == 1           \* game.vineSwingTime > 15 frames
GRAB_COOLDOWN == 2            \* game.vineGrabCooldown = 15 frames
MIN_GRIP == 4                 \* Math.max(40, ...)
PENDULUM_G == 4               \* gravity = 0.002 rad per frame^2, in 3 degrees per step^2
PENDULUM_DAMPING == 82        \* angularVelocity *= 0.98 per frame, in percent per step
RELEASE_SPEED_SCALE == 52     \* rad per frame of one angle unit per step, times 10000
ENTRY_SPIN == 191             \* entrySpeed * 0.01 rad per frame, in percent of angle units per step
EDGE_INSET == 1               \* playerLeftX = p.x + 5
SPIKE_INSET == 0              \* spikeLeft = obs.x + 5, rounded down
RELEASE_LIFT == -6
WALL_GAP == 2                 \* wallGapHeight = SLIDE_HEIGHT + 20
WALL_HIT_SPEED == 2
WALL_KNOCKBACK == 2           \* p.x -= 20
COIN_RADIUS == 3
CAMERA_EASE == 65             \* (targetCamX - cameraX) * 0.1 per frame, in percent per step
CULL_MARGIN == 20             \* game.cameraX - 200
CLEANUP_PERIOD == 6           \* game.frameCount % 60
CLEANUP_MARGIN == 100         \* game.cameraX - 1000
SPAWN_AHEAD == 80             \* game.cameraX + CANVAS_WIDTH + 800
OBSTACLE_MIN_GAP == 80        \* 800 + Math.random() * 800
VINE_MIN_GAP == 120           \* 1200 + Math.random() * 1200
COIN_MIN_GAP == 40            \* 400 + Math.random() * 400
TERRAIN_AHEAD == 50           \* game.nextTerrainX < spawnX + 500
PARTICLE_LIFE == 5            \* life 1, -0.02 per frame
HELI_BOARD_RADIUS == 10
HELI_BOARD_Y == 25
HELI_DEPART_VX == 8           \* heli.x += 8 per frame
HELI_DEPART_VY == 2           \* heli.y -= 2 per frame
Infinity == 1000000           \* game.nextTerrainX = Infinity

\* Bounds of the model
MaxFrames == 36        \* frames run in one history
MaxInputs == 2         \* key and touch events in one history
MaxSessions == 2       \* sessions started in one history

\* Math.random() of the spawner and of the terrain generator: a stream of
\* percents that repeats, entered at any position when the page loads
RandomStream == <<40, 10, 95, 70, 87>>
SpacingDraw == 0                          \* percent of the random extra spacing

----------------------------------------------------------------------------
(* Arithmetic of the source, on integers                                    *)

Max(a, b) == IF a >= b THEN a ELSE b
Min(a, b) == IF a <= b THEN a ELSE b
Abs(a) == IF a >= 0 THEN a ELSE -a
Sign(a) == IF a > 0 THEN 1 ELSE IF a < 0 THEN -1 ELSE 0

\* n / d rounded to the nearest integer, halves away from zero (d > 0)
RoundDiv(n, d) == Sign(n) * ((2 * Abs(n) + d) \div (2 * d))
\* n / d truncated towards zero (d > 0)
TruncDiv(n, d) == Sign(n) * (Abs(n) \div d)

\* Math.floor(Math.sqrt(n))
ISqrt(n) == CHOOSE r \in 0..200 : r * r <= n /\ (r + 1) * (r + 1) > n

\* 100 * sin of 0, 3, ..., 90 degrees
SinTable ==
  <<0, 5, 10, 16, 21, 26, 31, 36, 41, 45, 50, 54, 59, 63, 67, 71,
    74, 78, 81, 84, 87, 89, 91, 93, 95, 97, 98, 99, 99, 100, 100>>

\* 100 * Math.sin(a), a in units of 3 degrees
Sin100(a) ==
  LET m == a % 120
  IN IF m <= 30 THEN SinTable[m + 1]
     ELSE IF m <= 60 THEN SinTable[61 - m]
     ELSE IF m <= 90 THEN -SinTable[m - 59]
     ELSE -SinTable[121 - m]

\* 100 * Math.cos(a)
Cos100(a) == Sin100(a + 30)

----------------------------------------------------------------------------
(* gameRef and resetGame                                                    *)

NoVine == [id |-> 0, x |-> 0, anchorY |-> 0, length |-> 0, angle |-> 0,
           angularVelocity |-> 0]

InitialPlayer ==
  [x |-> CANVAS_WIDTH \div 3, y |-> BASE_GROUND_Y - PLAYER_HEIGHT,
   vx |-> PLAYER_BASE_SPEED, vy |-> 0, width |-> PLAYER_WIDTH,
   height |-> PLAYER_HEIGHT, state |-> "running", onVine |-> NoVine,
   vineLength |-> 0, invincible |-> 0]

InitialPolice == [x |-> POLICE_START_X, speed |-> POLICE_SPEED]

\* useRef({...}): the game record the component is constructed with
InitialGame ==
  [player |-> InitialPlayer,
   police |-> InitialPolice,
   cameraX |-> 0,
   obstacles |-> <<>>,
   vines |-> <<>>,
   coinsList |-> <<>>,
   particles |-> {},
   terrain |-> <<>>,
   distanceTraveled |-> 0,
   scoreValue |-> 0,
   coinsCollected |-> 0,
   frameCount |-> 0,
   keys |-> [up |-> FALSE, down |-> FALSE],
   nextTerrainX |-> 0,
   lastObstacleX |-> 0,
   lastVineX |-> 0,
   lastCoinX |-> 0,
   vineSwingTime |-> 0,
   vineGrabCooldown |-> 0,
   glideSeconds |-> 0,
   nextGlideChargeDistance |-> GLIDE_CHARGE_DISTANCE,
   plane |-> [x |-> CANVAS_WIDTH + 20, y |-> PLANE_Y, vx |-> 0, state |-> "hidden"],
   checkPointReached |-> FALSE,
   checkPointUsed |-> FALSE]

\* Math.random() * 100, floored, and the stream position after n draws
Random(r) == RandomStream[r + 1]
AdvanceRng(r, n) == (r + n) % Len(RandomStream)
NextRng(r) == AdvanceRng(r, 1)

\* generateTerrain(): segments i..count from (currentX, currentY), two draws each
RECURSIVE GenSegments(_, _, _, _, _)
GenSegments(currentX, currentY, count, i, r) ==
  IF i > count THEN <<>>
  ELSE LET segmentWidth == SEGMENT_MIN_WIDTH + (SEGMENT_EXTRA_WIDTH * Random(r)) \div 100
           heightChange == RoundDiv((Random(NextRng(r)) - 50) * HEIGHT_VARIANCE, 100)
           targetY == Max(TERRAIN_MIN_Y, Min(TERRAIN_MAX_Y, currentY + heightChange))
           seg == [startX |-> currentX, endX |-> currentX + segmentWidth,
                   startY |-> currentY, endY |-> targetY]
       IN <<seg>> \o GenSegments(currentX + segmentWidth, targetY, count, i + 1,
                                 AdvanceRng(r, 2))

\* generateTerrain(startX, count), drawing from position r on
generateTerrain(g, startX, count, r) ==
  LET currentY == IF Len(g.terrain) > 0
                  THEN g.terrain[Len(g.terrain)].endY
                  ELSE BASE_GROUND_Y
      segs == GenSegments(startX, currentY, count, 1, r)
  IN [g EXCEPT !.terrain = g.terrain \o segs,
               !.nextTerrainX = segs[Len(segs)].endX]

\* resetGame(): everything it assigns; game.keys is not among them
resetGame(g, r) ==
  generateTerrain(
    [g EXCEPT !.player = InitialPlayer,
              !.police = InitialPolice,
              !.cameraX = 0,
              !.obstacles = <<>>,
              !.vines = <<>>,
              !.coinsList = <<>>,
              !.particles = {},
              !.terrain = <<>>,
              !.distanceTraveled = 0,
              !.scoreValue = 0,
              !.coinsCollected = 0,
              !.frameCount = 0,
              !.nextTerrainX = 0,
              !.lastObstacleX = 0,
              !.lastVineX = 0,
              !.lastCoinX = 0,
              !.vineSwingTime = 0,
              !.vineGrabCooldown = 0,
              !.glideSeconds = 0,
              !.nextGlideChargeDistance = GLIDE_CHARGE_DISTANCE,
              !.plane = [x |-> PLANE_RESET_X, y |-> PLANE_Y, vx |-> 0, state |-> "hidden"],
              !.checkPointReached = FALSE,
              !.checkPointUsed = FALSE],
    0, INITIAL_TERRAIN_COUNT, r)

\* getTerrainHeight(worldX, visuals)
InGap(g, worldX) ==
  \E i \in 1..Len(g.obstacles) :
    /\ g.obstacles[i].type = "gap"
    /\ worldX >= g.obstacles[i].x
    /\ worldX <= g.obstacles[i].x + g.obstacles[i].width

SegmentHeight(g, worldX) ==
  LET hits == {i \in 1..Len(g.terrain) :
                 worldX >= g.terrain[i].startX /\ worldX < g.terrain[i].endX}
  IN IF hits = {} THEN BASE_GROUND_Y
     ELSE LET seg == g.terrain[CHOOSE i \in hits : \A j \in hits : i <= j]
          IN seg.startY + RoundDiv((seg.endY - seg.startY) * (worldX - seg.startX),
                                   seg.endX - seg.startX)

\* blend * GAP_FLATTEN_RANGE of one gap at worldX
GapBlend(o, worldX) ==
  LET leftStart == o.x - GAP_FLATTEN_RANGE
      rightEnd == o.x + o.width + GAP_FLATTEN_RANGE
  IN IF worldX >= leftStart /\ worldX < o.x THEN worldX - leftStart
     ELSE IF worldX > o.x + o.width /\ worldX <= rightEnd THEN rightEnd - worldX
     ELSE 0

\* getTerrainHeight() answering physics callers as it answers visual callers
getTerrainHeightMut(g, worldX, visuals) ==
  LET terrainY == SegmentHeight(g, worldX)
      gapIdx == {i \in 1..Len(g.obstacles) : g.obstacles[i].type = "gap"}
      blends == {GapBlend(g.obstacles[i], worldX) : i \in gapIdx} \cup {0}
      blend == CHOOSE b \in blends : \A c \in blends : b >= c
  IN IF blend > 0
     THEN RoundDiv(terrainY * (GAP_FLATTEN_RANGE - blend) + BASE_GROUND_Y * blend,
                   GAP_FLATTEN_RANGE)
     ELSE terrainY

getTerrainHeight(g, worldX, visuals) ==
  IF InGap(g, worldX) /\ ~visuals THEN THE_ABYSS
  ELSE LET terrainY == SegmentHeight(g, worldX)
           gapIdx == {i \in 1..Len(g.obstacles) : g.obstacles[i].type = "gap"}
           blends == {GapBlend(g.obstacles[i], worldX) : i \in gapIdx} \cup {0}
           blend == CHOOSE b \in blends : \A c \in blends : b >= c
       IN IF blend > 0
          THEN RoundDiv(terrainY * (GAP_FLATTEN_RANGE - blend) + BASE_GROUND_Y * blend,
                        GAP_FLATTEN_RANGE)
          ELSE terrainY

\* createParticles(x, y, color, count): a burst, kept as its remaining life
createParticles(g) == [g EXCEPT !.particles = g.particles \cup {PARTICLE_LIFE}]

----------------------------------------------------------------------------
(* gameOver and update                                                      *)
(*                                                                          *)
(* update() is computed on a context c = [g, st, subs, respawns]: the game  *)
(* record, the gameState requested by setGameState, and how many times this *)
(* frame gameOver() dispatched the score and how many times it respawned.   *)

Ctx(g, r) == [g |-> g, rng |-> r, st |-> "playing", subs |-> 0, respawns |-> 0]

\* gameOver()
gameOverMut(c) ==
  LET g == c.g
  IN IF g.checkPointReached
     THEN [c EXCEPT
            !.g = createParticles(
                    [g EXCEPT !.checkPointUsed = TRUE,
                              !.player.y = BASE_GROUND_Y - RESPAWN_HEIGHT,
                              !.player.vy = 0,
                              !.player.vx = 0,
                              !.player.state = "jumping",
                              !.player.invincible = RESPAWN_INVINCIBLE,
                              !.police.x = (g.player.x - RESPAWN_POLICE_BACK) * 10]),
            !.respawns = c.respawns + 1]
     ELSE [c EXCEPT !.st = "gameover", !.subs = c.subs + 1]

gameOver(c) ==
  LET g == c.g
  IN IF g.checkPointReached /\ ~g.checkPointUsed
     THEN [c EXCEPT
            !.g = createParticles(
                    [g EXCEPT !.checkPointUsed = TRUE,
                              !.player.y = BASE_GROUND_Y - RESPAWN_HEIGHT,
                              !.player.vy = 0,
                              !.player.vx = 0,
                              !.player.state = "jumping",
                              !.player.invincible = RESPAWN_INVINCIBLE,
                              !.police.x = (g.player.x - RESPAWN_POLICE_BACK) * 10]),
            !.respawns = c.respawns + 1]
     ELSE [c EXCEPT !.st = "gameover", !.subs = c.subs + 1]

\* update(): slope physics (lines 1508-1530)
SlopeEffect(g, slope10) ==
  LET p == g.player
  IN IF slope10 < -p.width
     THEN [g EXCEPT !.player.vx = Max(UPHILL_MIN_SPEED, p.vx - UPHILL_DRAG)]
     ELSE IF slope10 > p.width
     THEN LET boost == IF p.state = "sliding" THEN SLIDE_BOOST ELSE DOWNHILL_BOOST
              g1 == [g EXCEPT !.player.vx = Min(SPEED_CAP, p.vx + boost)]
          IN IF p.state = "sliding" THEN createParticles(g1) ELSE g1
     ELSE LET v1 == IF p.vx > PLAYER_BASE_SPEED
                    THEN RoundDiv(p.vx * FLAT_FRICTION, 100) ELSE p.vx
              v2 == IF v1 < PLAYER_BASE_SPEED
                    THEN Min(PLAYER_BASE_SPEED, v1 + FLAT_CATCHUP) ELSE v1
          IN [g EXCEPT !.player.vx = v2]

\* 10 * slope * p.width, slope = (nextH - currentH) / p.width
SlopePhysics(g) ==
  SlopeEffect(g, 10 * (getTerrainHeight(g, g.player.x + g.player.width + SLOPE_PROBE, TRUE)
                       - getTerrainHeight(g, g.player.x + SLOPE_PROBE, TRUE)))

\* the distance accrued from the speed in excess of PLAYER_BASE_SPEED
AccrueDistanceMut(g) ==
  LET d == g.distanceTraveled
             + (g.player.vx - PLAYER_BASE_SPEED) * DISTANCE_PER_SPEED
  IN [g EXCEPT !.distanceTraveled = d,
               !.scoreValue = d * SCORE_PER_DISTANCE + g.coinsCollected * SCORE_PER_COIN]

\* update(): distance, glide charge and score (lines 1532-1540)
AccrueDistance(g) ==
  LET d == g.distanceTraveled + g.player.vx * DISTANCE_PER_SPEED
      charges == IF d >= g.nextGlideChargeDistance
                 THEN (d - g.nextGlideChargeDistance) \div GLIDE_CHARGE_DISTANCE + 1
                 ELSE 0
  IN [g EXCEPT !.distanceTraveled = d,
               !.glideSeconds = g.glideSeconds + charges * GLIDE_CHARGE_SECONDS,
               !.nextGlideChargeDistance =
                  g.nextGlideChargeDistance + charges * GLIDE_CHARGE_DISTANCE,
               !.scoreValue = d * SCORE_PER_DISTANCE + g.coinsCollected * SCORE_PER_COIN]

\* update(): invincibility countdown (line 1542)
TickInvincible(g) ==
  IF g.player.invincible > 0
  THEN [g EXCEPT !.player.invincible = g.player.invincible - 1]
  ELSE g

\* the pursuer advancing by half its speed
AdvancePoliceHalf(g) ==
  LET speed == (POLICE_SPEED * (DIFFICULTY_DISTANCE + g.distanceTraveled))
                 \div DIFFICULTY_DISTANCE
  IN [g EXCEPT !.police.speed = speed, !.police.x = g.police.x + speed \div 2]

\* the pursuer slowing down with the distance
AdvancePoliceMut(g) ==
  LET speed == (POLICE_SPEED * (DIFFICULTY_DISTANCE - g.distanceTraveled))
                 \div DIFFICULTY_DISTANCE
  IN [g EXCEPT !.police.speed = speed, !.police.x = g.police.x + speed]

\* update(): the pursuer (lines 1544-1547)
AdvancePolice(g) ==
  LET speed == (POLICE_SPEED * (DIFFICULTY_DISTANCE + g.distanceTraveled))
                 \div DIFFICULTY_DISTANCE
  IN [g EXCEPT !.police.speed = speed, !.police.x = g.police.x + speed]

\* update(): checkpoint trigger (lines 1549-1555)
CheckpointTrigger(g) ==
  IF g.distanceTraveled >= CHECKPOINT_DISTANCE /\ ~g.checkPointReached
  THEN createParticles([g EXCEPT !.checkPointReached = TRUE])
  ELSE g

\* update(): victory condition (lines 1557-1562)
VictoryTrigger(g) ==
  IF g.distanceTraveled >= VICTORY_DISTANCE /\ g.plane.state = "hidden"
  THEN [g EXCEPT !.plane.state = "entering", !.nextTerrainX = Infinity]
  ELSE g

\* update(): helicopter logic (lines 1564-1597)
Helicopter(c) ==
  LET g == c.g
      heli == g.plane
      p == g.player
  IN IF heli.state = "entering"
     THEN LET x1 == heli.x + heli.vx
              brake == x1 * 100 < g.cameraX * 100 + CANVAS_WIDTH * HELI_STOP_PERCENT
              vx1 == IF brake THEN TruncDiv(heli.vx * HELI_BRAKE, 100) ELSE heli.vx
              st1 == IF brake /\ vx1 = 0 THEN "waiting" ELSE "entering"
          IN [c EXCEPT !.g.plane = [heli EXCEPT !.x = x1, !.vx = vx1, !.state = st1]]
     ELSE IF heli.state = "waiting"
     THEN LET y1 == PLANE_Y + RoundDiv(Sin100(g.frameCount * HELI_WIGGLE), 100)
              dx == (p.x + p.width \div 2) - heli.x
              dy == p.y - y1
          IN IF dx * dx + dy * dy < HELI_BOARD_RADIUS * HELI_BOARD_RADIUS
                /\ p.y < HELI_BOARD_Y
             THEN [c EXCEPT !.st = "victory",
                            !.g.plane.y = y1,
                            !.g.plane.state = "departing",
                            !.g.player.state = "swinging"]
             ELSE [c EXCEPT !.g.plane.y = y1]
     ELSE IF heli.state = "departing"
     THEN [c EXCEPT !.g.plane.x = heli.x + HELI_DEPART_VX,
                    !.g.plane.y = heli.y - HELI_DEPART_VY]
     ELSE c

\* update(): caught by the police (line 1610) / fell off the screen (line 1616)
Caught(g) == g.police.x + POLICE_WIDTH >= g.player.x * 10
Fell(g) == g.player.y > CANVAS_HEIGHT

\* Replace the vine object v in game.vines (same identity) by its new value
SyncVine(vines, v) ==
  [i \in 1..Len(vines) |-> IF vines[i].id = v.id THEN v ELSE vines[i]]

\* the swing branch releasing as soon as keys.up is false
SwingStepMut(g) ==
  LET p == g.player
      vine == p.onVine
      vineLength == IF p.vineLength # 0 THEN p.vineLength ELSE vine.length
      av1 == vine.angularVelocity - RoundDiv(PENDULUM_G * Sin100(vine.angle), 100)
      av2 == TruncDiv(av1 * PENDULUM_DAMPING, 100)
      angle == vine.angle + av2
      v2 == [vine EXCEPT !.angularVelocity = av2, !.angle = angle]
      x1 == vine.x + RoundDiv(Sin100(angle) * vineLength, 100) - p.width \div 2
      y1 == vine.anchorY + RoundDiv(Cos100(angle) * vineLength, 100) - p.height \div 2
      swingTime == g.vineSwingTime + 1
      g1 == [g EXCEPT !.player.x = x1, !.player.y = y1, !.player.onVine = v2,
                      !.vines = SyncVine(g.vines, v2),
                      !.vineSwingTime = swingTime]
  IN IF ~g.keys.up
     THEN LET releaseSpeed == RoundDiv(av2 * vineLength * RELEASE_SPEED_SCALE, 1000)
              forwardBoost == RoundDiv(Max(0, Cos100(angle)) * Abs(releaseSpeed) * 15, 1000)
              vxr == Max(PLAYER_BASE_SPEED + 1,
                         Min(PLAYER_BASE_SPEED + forwardBoost, PLAYER_BASE_SPEED * 3))
              vyr == -RoundDiv(Abs(Sin100(angle) * releaseSpeed) * 12, 1000) + RELEASE_LIFT
          IN createParticles(
               [g1 EXCEPT !.player.vx = vxr, !.player.vy = vyr,
                          !.player.state = "jumping",
                          !.player.onVine = NoVine,
                          !.player.vineLength = 0,
                          !.vineSwingTime = 0])
     ELSE g1

\* update(): swinging (lines 1621-1650)
SwingStep(g) ==
  LET p == g.player
      vine == p.onVine
      vineLength == IF p.vineLength # 0 THEN p.vineLength ELSE vine.length
      av1 == vine.angularVelocity - RoundDiv(PENDULUM_G * Sin100(vine.angle), 100)
      av2 == TruncDiv(av1 * PENDULUM_DAMPING, 100)
      angle == vine.angle + av2
      v2 == [vine EXCEPT !.angularVelocity = av2, !.angle = angle]
      x1 == vine.x + RoundDiv(Sin100(angle) * vineLength, 100) - p.width \div 2
      y1 == vine.anchorY + RoundDiv(Cos100(angle) * vineLength, 100) - p.height \div 2
      swingTime == g.vineSwingTime + 1
      g1 == [g EXCEPT !.player.x = x1, !.player.y = y1, !.player.onVine = v2,
                      !.vines = SyncVine(g.vines, v2),
                      !.vineSwingTime = swingTime]
  IN IF ~g.keys.up /\ swingTime > MIN_SWING_TIME
     THEN LET releaseSpeed == RoundDiv(av2 * vineLength * RELEASE_SPEED_SCALE, 1000)
              forwardBoost == RoundDiv(Max(0, Cos100(angle)) * Abs(releaseSpeed) * 15, 1000)
              vxr == Max(PLAYER_BASE_SPEED + 1,
                         Min(PLAYER_BASE_SPEED + forwardBoost, PLAYER_BASE_SPEED * 3))
              vyr == -RoundDiv(Abs(Sin100(angle) * releaseSpeed) * 12, 1000) + RELEASE_LIFT
          IN createParticles(
               [g1 EXCEPT !.player.vx = vxr, !.player.vy = vyr,
                          !.player.state = "jumping",
                          !.player.onVine = NoVine,
                          !.player.vineLength = 0,
                          !.vineSwingTime = 0])
     ELSE g1

\* the overGap test of update() (lines 1662-1668), on the x before the move
OverGap(g) ==
  LET p == g.player
      playerCenterX == p.x + p.width \div 2
      playerLeftX == p.x + EDGE_INSET
      playerRightX == p.x + p.width - EDGE_INSET
      in(o, x) == x > o.x /\ x < o.x + o.width
  IN \E i \in 1..Len(g.obstacles) :
       /\ g.obstacles[i].type = "gap"
       /\ \/ in(g.obstacles[i], playerLeftX)
          \/ in(g.obstacles[i], playerRightX)
          \/ in(g.obstacles[i], playerCenterX)

\* update(): air drag back to the base speed (lines 1652-1656)
Drag(p) ==
  [p EXCEPT !.vx = IF p.vx > PLAYER_BASE_SPEED THEN p.vx - AIR_DRAG
                   ELSE PLAYER_BASE_SPEED]

\* p.y >= groundY - PLAYER_HEIGHT - 10
NearGround(p, groundY) == p.y >= groundY - PLAYER_HEIGHT - GROUND_REACH

\* update(): the slide input (lines 1672-1679)
Slide(g, p, groundY, overGap) ==
  IF g.keys.down /\ NearGround(p, groundY) /\ p.state # "jumping" /\ ~overGap
  THEN [p EXCEPT !.state = "sliding", !.height = SLIDE_HEIGHT]
  ELSE IF ~g.keys.down /\ p.state = "sliding"
  THEN [p EXCEPT !.state = "running", !.height = PLAYER_HEIGHT,
                 !.y = groundY - PLAYER_HEIGHT]
  ELSE p

\* update(): the jump input (lines 1681-1687)
Jumps(g, p, groundY, overGap) ==
  g.keys.up /\ NearGround(p, groundY) /\ p.state # "swinging" /\ ~overGap

Jump(p) == [p EXCEPT !.vy = JUMP_FORCE, !.state = "jumping", !.height = PLAYER_HEIGHT]

\* update(): isAirborne and the glide input (lines 1689-1690)
Glides(g, p, groundY) ==
  g.keys.up /\ p.y + p.height < groundY - AIRBORNE_MARGIN /\ g.glideSeconds > 0

\* update(): gravity, gliding or not, and the move (lines 1691-1699)
Fall(g, p, glides) ==
  LET vyg == IF glides /\ p.vy > GLIDE_MAX_FALL THEN GLIDE_MAX_FALL ELSE p.vy
      vy4 == vyg + (IF glides THEN GLIDE_GRAVITY ELSE GRAVITY)
  IN [g EXCEPT !.player = [p EXCEPT !.vy = vy4, !.y = p.y + vy4, !.x = p.x + p.vx],
               !.glideSeconds = IF glides THEN Max(0, g.glideSeconds - GLIDE_DRAIN)
                                ELSE g.glideSeconds]

\* the jump and the fall of a player p that has slid or stood up
JumpAndFall(g, p, groundY, overGap) ==
  IF Jumps(g, p, groundY, overGap)
  THEN createParticles(Fall(g, Jump(p), Glides(g, Jump(p), groundY)))
  ELSE Fall(g, p, Glides(g, p, groundY))

\* update(): slide and jump input, gravity and the move (lines 1652-1699)
MoveOver(g, groundY, overGap) ==
  JumpAndFall(g, Slide(g, Drag(g.player), groundY, overGap), groundY, overGap)

MoveStep(g, overGap) ==
  MoveOver(g, getTerrainHeight(g, g.player.x + g.player.width \div 2, FALSE), overGap)

\* update(): game.obstacles.forEach (lines 1704-1743) from obstacle i on;
\* r = [g, onRamp]
RECURSIVE ObstacleEffects(_, _)
ObstacleEffects(r, i) ==
  IF i > Len(r.g.obstacles) THEN r
  ELSE LET g == r.g
           p == g.player
           obs == g.obstacles[i]
           obsGroundY == getTerrainHeight(g, obs.x + obs.width \div 2, FALSE)
           cx == p.x + p.width \div 2
       IN IF obs.type = "mushroom"
          THEN LET dx == cx - (obs.x + obs.width \div 2)
                   dy == (p.y + p.height) - obsGroundY
               IN IF dx * dx + dy * dy < MUSHROOM_RADIUS * MUSHROOM_RADIUS /\ p.vy >= 0
                  THEN ObstacleEffects(
                         [r EXCEPT !.g = createParticles(
                            [g EXCEPT !.player.vy = MUSHROOM_BOUNCE,
                                      !.player.vx = p.vx + MUSHROOM_BOOST,
                                      !.player.state = "jumping"])], i + 1)
                  ELSE ObstacleEffects(r, i + 1)
          ELSE IF obs.type = "ramp"
          THEN LET along == cx - obs.x       \* rampProgress * obs.width
                   rampY == obsGroundY - RoundDiv(along * obs.height, obs.width)
               IN IF along > 0 /\ along < obs.width
                     /\ p.y + p.height > rampY /\ p.vy >= 0
                  THEN ObstacleEffects(
                         [g |-> [g EXCEPT
                                  !.player.y = rampY - p.height,
                                  !.player.vy = IF g.keys.down THEN RAMP_LAUNCH ELSE 0,
                                  !.player.vx = IF g.keys.down THEN p.vx + RAMP_BOOST
                                                ELSE p.vx],
                          onRamp |-> TRUE], i + 1)
                  ELSE ObstacleEffects(r, i + 1)
          ELSE ObstacleEffects(r, i + 1)

\* update(): ground clamp, landing and falling (lines 1745-1768)
GroundStep(r, isOverGap) ==
  LET g == r.g
      onRamp == r.onRamp
      p == g.player
      currentGroundY == getTerrainHeight(g, p.x + p.width \div 2, FALSE)
      targetY == currentGroundY
                   - (IF p.state = "sliding" THEN SLIDE_HEIGHT ELSE PLAYER_HEIGHT)
      playerBottom == p.y + p.height
  IN IF ~onRamp /\ ~isOverGap
     THEN IF playerBottom >= currentGroundY - LANDING_MARGIN
          THEN IF p.state \in {"running", "sliding"}
               THEN [g EXCEPT !.player.y = targetY, !.player.vy = 0]
               ELSE IF p.state \in {"jumping", "falling"}
               THEN createParticles(
                      [g EXCEPT !.player.y = targetY, !.player.vy = 0,
                                !.player.state = IF g.keys.down THEN "sliding"
                                                 ELSE "running"])
               ELSE g
          ELSE IF playerBottom < currentGroundY - FALLING_MARGIN /\ p.state # "jumping"
          THEN [g EXCEPT !.player.state = "falling"]
          ELSE g
     ELSE IF isOverGap /\ p.state # "swinging"
     THEN [g EXCEPT !.player.state = "falling"]
     ELSE g

\* update(): the branch of a player that is not swinging (lines 1651-1769)
RunStep(g) ==
  GroundStep(ObstacleEffects([g |-> MoveStep(g, OverGap(g)), onRamp |-> FALSE], 1),
             OverGap(g))

PlayerStep(g) ==
  IF g.player.state = "swinging" /\ g.player.onVine.id # 0
  THEN SwingStep(g)
  ELSE RunStep(g)

\* getVinePoint(vine, i / 10): the cubic Bezier point of the rope, in cells
getVinePoint(vine, i) ==
  LET u == 10 - i
      w0 == u * u * u
      w1 == 3 * u * u * i
      w2 == 3 * u * i * i
      w3 == i * i * i
      L == vine.length
      \* offsets from the anchor (startX, startY), in thousandths of a cell
      endX == Sin100(vine.angle) * L * 10
      endY == Cos100(vine.angle) * L * 10
      cp1x == Sin100(RoundDiv(vine.angle, 2)) * L * 3
      cp1y == L * 300
      cp2x == Sin100(RoundDiv(vine.angle * 4, 5)) * L * 7
      cp2y == L * 700
  IN [x |-> vine.x + RoundDiv(w1 * cp1x + w2 * cp2x + w3 * endX, 1000000),
      y |-> vine.anchorY + RoundDiv(w1 * cp1y + w2 * cp2y + w3 * endY, 1000000)]

Dist2(ax, ay, bx, by) == (ax - bx) * (ax - bx) + (ay - by) * (ay - by)

\* the first of the smallest entries of d
FirstMin(d) ==
  CHOOSE i \in DOMAIN d :
    /\ \A j \in DOMAIN d : d[i] <= d[j]
    /\ \A j \in DOMAIN d : j < i => d[j] > d[i]

\* the sample of the rope closest to (px, py): the first of the nearest ones
ClosestSample(vine, px, py) ==
  FirstMin([i \in 0..10 |->
             Dist2(px, py, getVinePoint(vine, i).x, getVinePoint(vine, i).y)])

\* the closest point of the rope to the centre of the player
ClosestPoint(vine, p) ==
  getVinePoint(vine, ClosestSample(vine, p.x + p.width \div 2, p.y + p.height \div 2))

\* update(): the grab condition on vine i (lines 1791-1793)
CanGrab(g, closestPoint) ==
  LET p == g.player
  IN /\ p.state # "swinging" /\ g.vineGrabCooldown = 0
     /\ Dist2(p.x + p.width \div 2, p.y + p.height \div 2,
              closestPoint.x, closestPoint.y) < VINE_GRAB_RADIUS * VINE_GRAB_RADIUS
     /\ g.keys.up
     /\ p.state \in {"jumping", "falling"}

\* update(): the player takes hold of vine at closestPoint (lines 1794-1806)
Grab(g, vine, closestPoint) ==
  LET p == g.player
      entrySpeed == ISqrt(p.vx * p.vx + p.vy * p.vy)
      spin == RoundDiv(entrySpeed * ENTRY_SPIN, 100) * (IF p.vx > 0 THEN 1 ELSE -1)
      v2 == [vine EXCEPT !.angularVelocity = spin]
      grip == Max(MIN_GRIP,
                  ISqrt(Dist2(closestPoint.x, closestPoint.y, vine.x, vine.anchorY)))
  IN [g EXCEPT !.player.state = "swinging",
               !.player.onVine = v2,
               !.player.vineLength = grip,
               !.player.vy = 0,
               !.player.height = PLAYER_HEIGHT,
               !.player.x = closestPoint.x - p.width \div 2,
               !.player.y = closestPoint.y - PLAYER_HEIGHT \div 2,
               !.vines = SyncVine(g.vines, v2),
               !.vineSwingTime = 0,
               !.vineGrabCooldown = GRAB_COOLDOWN]

GrabVine(g, vine, closestPoint) ==
  IF CanGrab(g, closestPoint) THEN Grab(g, vine, closestPoint) ELSE g

\* update(): game.vines.forEach, the grab (lines 1771-1808), from vine i on
RECURSIVE GrabVines(_, _)
GrabVines(g, i) ==
  IF i > Len(g.vines) THEN g
  ELSE GrabVines(GrabVine(g, g.vines[i], ClosestPoint(g.vines[i], g.player)), i + 1)

\* update(): grab cooldown countdown (lines 1810-1812)
TickCooldown(g) ==
  IF g.vineGrabCooldown > 0
  THEN [g EXCEPT !.vineGrabCooldown = g.vineGrabCooldown - 1]
  ELSE g

\* checkCollision() without the invincibility test of line 1448
checkCollisionMut(g, obs) ==
  LET p == g.player
      pLeft == p.x
      pRight == p.x + p.width
      pTop == p.y
      pBottom == p.y + (IF p.state = "sliding" THEN SLIDE_HEIGHT ELSE p.height)
      groundY == getTerrainHeight(g, obs.x + obs.width \div 2, FALSE)
  IN IF obs.type = "warning" THEN FALSE
     ELSE IF obs.type = "low_beam"
     THEN LET wallBottom == getTerrainHeight(g, obs.x, FALSE) - (SLIDE_HEIGHT + WALL_GAP)
          IN /\ p.x + p.width > obs.x /\ p.x < obs.x + obs.width
             /\ ~(pTop < 0)
             /\ pTop < wallBottom
     ELSE IF obs.type = "spike"
     THEN /\ pRight > obs.x + SPIKE_INSET
          /\ pLeft < obs.x + obs.width - SPIKE_INSET
          /\ pBottom > groundY - obs.height
          /\ pTop < groundY
     ELSE FALSE

\* checkCollision(p, obs)
checkCollision(g, obs) ==
  LET p == g.player
      pLeft == p.x
      pRight == p.x + p.width
      pTop == p.y
      pBottom == p.y + (IF p.state = "sliding" THEN SLIDE_HEIGHT ELSE p.height)
      groundY == getTerrainHeight(g, obs.x + obs.width \div 2, FALSE)
  IN IF p.invincible > 0 THEN FALSE
     ELSE IF obs.type = "warning" THEN FALSE
     ELSE IF obs.type = "low_beam"
     THEN LET wallBottom == getTerrainHeight(g, obs.x, FALSE) - (SLIDE_HEIGHT + WALL_GAP)
          IN /\ p.x + p.width > obs.x /\ p.x < obs.x + obs.width
             /\ ~(pTop < 0)
             /\ pTop < wallBottom
     ELSE IF obs.type = "spike"
     THEN /\ pRight > obs.x + SPIKE_INSET
          /\ pLeft < obs.x + obs.width - SPIKE_INSET
          /\ pBottom > groundY - obs.height
          /\ pTop < groundY
     ELSE FALSE


\* the obstacle filter with the low overhead wall as lethal as a spike
RECURSIVE FilterObstaclesMut(_, _, _)
FilterObstaclesMut(c, i, kept) ==
  IF i > Len(c.g.obstacles) THEN [c EXCEPT !.g.obstacles = kept]
  ELSE LET g == c.g
           obs == g.obstacles[i]
       IN IF checkCollision(g, obs)
          THEN FilterObstaclesMut(gameOver([c EXCEPT !.g = createParticles(g)]),
                                  i + 1, kept)
          ELSE FilterObstaclesMut(c, i + 1,
                 IF obs.x + obs.width > g.cameraX - CULL_MARGIN
                 THEN Append(kept, obs) ELSE kept)

\* update(): game.obstacles.filter (lines 1814-1835) from obstacle i on;
\* c.g.obstacles is the array being filtered, kept the obstacles retained so far
RECURSIVE FilterObstacles(_, _, _)
FilterObstacles(c, i, kept) ==
  IF i > Len(c.g.obstacles) THEN [c EXCEPT !.g.obstacles = kept]
  ELSE LET g == c.g
           p == g.player
           obs == g.obstacles[i]
       IN IF checkCollision(g, obs)
          THEN IF obs.type = "low_beam"
               THEN FilterObstacles(
                      [c EXCEPT !.g = createParticles(
                         [g EXCEPT !.player.vx = WALL_HIT_SPEED,
                                   !.player.x = p.x - WALL_KNOCKBACK])],
                      i + 1, Append(kept, obs))
               ELSE FilterObstacles(gameOver([c EXCEPT !.g = createParticles(g)]),
                                    i + 1, kept)
          ELSE FilterObstacles(c, i + 1,
                 IF obs.x + obs.width > g.cameraX - CULL_MARGIN
                 THEN Append(kept, obs) ELSE kept)

\* update(): vine cull (lines 1837-1839)
CullVines(g) ==
  LET keep(v) == v.x > g.cameraX - CULL_MARGIN
  IN [g EXCEPT !.vines = SelectSeq(g.vines, keep)]

\* update(): coin pickup and cull (lines 1841-1855), from coin i on
RECURSIVE CollectCoins(_, _)
CollectCoins(g, i) ==
  IF i > Len(g.coinsList) THEN g
  ELSE LET p == g.player
           coin == g.coinsList[i]
           dx == (p.x + p.width \div 2) - coin.x
           dy == (p.y + p.height \div 2) - coin.y
       IN IF ~coin.collected /\ dx * dx + dy * dy < COIN_RADIUS * COIN_RADIUS
          THEN CollectCoins(createParticles(
                 [g EXCEPT !.coinsList[i].collected = TRUE,
                           !.coinsCollected = g.coinsCollected + 1]), i + 1)
          ELSE CollectCoins(g, i + 1)

CullCoins(g) ==
  LET keep(coin) == coin.x > g.cameraX - CULL_MARGIN
  IN [g EXCEPT !.coinsList = SelectSeq(g.coinsList, keep)]

\* update(): particles (lines 1857-1863)
AgeParticles(g) ==
  [g EXCEPT !.particles = {life - 1 : life \in g.particles} \ {0}]

\* update(): memory cleanup (lines 1865-1872)
Cleanup(g) ==
  IF g.frameCount % CLEANUP_PERIOD = 0
  THEN LET cullX == g.cameraX - CLEANUP_MARGIN
           keepT(t) == t.endX > cullX
           keepO(o) == o.x + o.width > cullX
           keepC(coin) == coin.x > cullX \/ ~coin.collected
       IN [g EXCEPT !.terrain = SelectSeq(g.terrain, keepT),
                    !.obstacles = SelectSeq(g.obstacles, keepO),
                    !.coinsList = SelectSeq(g.coinsList, keepC)]
  ELSE g

\* update(): camera follow (lines 1874-1876)
CameraFollow(g) ==
  LET targetCamX == g.player.x - (CANVAS_WIDTH * 3) \div 10
  IN [g EXCEPT !.cameraX = g.cameraX + RoundDiv((targetCamX - g.cameraX) * CAMERA_EASE, 100)]

----------------------------------------------------------------------------
(* The spawner                                                              *)

\* identity of a new Vine object: the least id no live or held vine has
FreshVineId(g) ==
  LET used == {g.vines[i].id : i \in 1..Len(g.vines)} \cup {g.player.onVine.id}
  IN CHOOSE n \in 1..(Cardinality(used) + 1) : n \notin used

Near(o, worldX, buffer) ==
  worldX >= o.x - buffer /\ worldX <= o.x + o.width + buffer

\* spawnVine(worldX, {force, length, angle, anchorY})
spawnVineMut(g, worldX, force, length, angle, anchorY) ==
  LET obs == g.obstacles
      inGap == \E i \in 1..Len(obs) : obs[i].type = "gap" /\ Near(obs[i], worldX, 0)
  IN IF inGap THEN g
     ELSE [g EXCEPT !.vines = Append(g.vines,
                                [id |-> FreshVineId(g), x |-> worldX, anchorY |-> anchorY,
                                 length |-> length, angle |-> angle,
                                 angularVelocity |-> 0]),
                    !.lastVineX = worldX]

spawnVine(g, worldX, force, length, angle, anchorY) ==
  LET obs == g.obstacles
      inGap == \E i \in 1..Len(obs) : obs[i].type = "gap" /\ Near(obs[i], worldX, 0)
      nearWall == \E i \in 1..Len(obs) :
                    obs[i].type = "low_beam" /\ Near(obs[i], worldX, VINE_WALL_BUFFER)
      nearSpike == \E i \in 1..Len(obs) :
                     obs[i].type = "spike" /\ Near(obs[i], worldX, VINE_SPIKE_BUFFER)
  IN IF ~force /\ (inGap \/ nearWall \/ nearSpike) THEN g
     ELSE [g EXCEPT !.vines = Append(g.vines,
                                [id |-> FreshVineId(g), x |-> worldX, anchorY |-> anchorY,
                                 length |-> length, angle |-> angle,
                                 angularVelocity |-> 0]),
                    !.lastVineX = worldX]

\* the terrain.forEach flattening of spawnObstacle
Flatten(terrain, flattenStart, flattenEnd) ==
  [i \in 1..Len(terrain) |->
     IF terrain[i].endX > flattenStart /\ terrain[i].startX < flattenEnd
     THEN [terrain[i] EXCEPT !.startY = BASE_GROUND_Y, !.endY = BASE_GROUND_Y]
     ELSE terrain[i]]

Obstacle(x, type, width, height) ==
  [x |-> x, type |-> type, width |-> width, height |-> height, passed |-> FALSE]

\* spawnObstacle(worldX), the chasm branch (rand >= 0.90)
spawnChasm(c, worldX) ==
  LET g == c.g
      chasmX == worldX + CHASM_LEAD
      width == CHASM_MIN_WIDTH + (CHASM_EXTRA_WIDTH * Random(c.rng)) \div 100
      g1 == [g EXCEPT
              !.obstacles = g.obstacles
                 \o <<Obstacle(worldX, "warning", WARNING_WIDTH, WARNING_HEIGHT),
                      Obstacle(chasmX, "gap", width, GAP_HEIGHT)>>,
              !.terrain = Flatten(g.terrain, chasmX - GAP_FLATTEN_RANGE,
                                  chasmX + width + GAP_FLATTEN_RANGE)]
      preChasmVineX == chasmX - CHASM_VINE_BEFORE
      midChasmVineX == chasmX + RoundDiv(width * CHASM_VINE_PERCENT, 100)
      g2 == spawnVine(g1, preChasmVineX, TRUE, PRE_CHASM_VINE_LENGTH,
                      PRE_CHASM_VINE_ANGLE, VINE_ANCHOR_Y)
      g3 == spawnVine(g2, midChasmVineX, TRUE, MID_CHASM_VINE_LENGTH,
                      MID_CHASM_VINE_ANGLE, MID_CHASM_ANCHOR_Y)
  IN [c EXCEPT !.g = [g3 EXCEPT !.lastObstacleX = chasmX + width],
               !.rng = NextRng(c.rng)]

\* spawnObstacle(worldX), the other kinds
spawnPlain(c, worldX, type) ==
  LET g == c.g
      isNearVine(x, buffer) ==
        \E i \in 1..Len(g.vines) : Abs(g.vines[i].x - x) < buffer
      x1 == IF type = "low_beam" /\ isNearVine(worldX, VINE_WALL_BUFFER)
            THEN worldX + VINE_WALL_BUFFER ELSE worldX
      obstacleX == IF type = "spike" /\ isNearVine(x1, VINE_SPIKE_BUFFER)
                   THEN x1 + VINE_SPIKE_BUFFER ELSE x1
      width == CASE type = "spike" -> SPIKE_WIDTH
                 [] type = "low_beam" -> BEAM_WIDTH
                 [] type = "gap" ->
                      GAP_MIN_WIDTH + (GAP_EXTRA_WIDTH * Random(c.rng)) \div 100
                 [] type = "ramp" -> RAMP_WIDTH
      height == CASE type = "spike" -> SPIKE_HEIGHT
                  [] type = "low_beam" -> CANVAS_HEIGHT
                  [] type = "gap" -> GAP_HEIGHT
                  [] type = "ramp" -> RAMP_HEIGHT
      g1 == [g EXCEPT !.obstacles = Append(g.obstacles,
                                           Obstacle(obstacleX, type, width, height)),
                      !.lastObstacleX = obstacleX + width]
  IN IF type = "gap"
     THEN [c EXCEPT !.g = [g1 EXCEPT
                             !.terrain = Flatten(g.terrain, obstacleX - GAP_FLATTEN_RANGE,
                                                 obstacleX + width + GAP_FLATTEN_RANGE),
                             !.lastVineX = obstacleX],
                    !.rng = NextRng(c.rng)]
     ELSE [c EXCEPT !.g = g1]

\* spawnObstacle(worldX): the kind by the weights of the source
ObstacleKind(rand) ==
  IF rand < 30 THEN "spike"
  ELSE IF rand < 60 THEN "low_beam"
  ELSE IF rand < 85 THEN "gap"
  ELSE IF rand < 90 THEN "ramp"
  ELSE "chasm"

spawnObstacle(c, worldX) ==
  LET kind == ObstacleKind(Random(c.rng))
      c1 == [c EXCEPT !.rng = NextRng(c.rng)]
  IN IF kind = "chasm" THEN spawnChasm(c1, worldX) ELSE spawnPlain(c1, worldX, kind)

\* spawnCoin(worldX, groundY)
spawnCoin(c, worldX, groundY) ==
  LET g == c.g
      row == (Random(c.rng) * 3) \div 100
  IN IF \E i \in 1..Len(g.obstacles) :
          g.obstacles[i].type = "gap" /\ Near(g.obstacles[i], worldX, 0)
     THEN c
     ELSE [c EXCEPT !.g = [g EXCEPT
                     !.coinsList = Append(g.coinsList,
                        [x |-> worldX,
                         y |-> groundY - COIN_ROW_BASE - COIN_ROW_STEP * row,
                         collected |-> FALSE]),
                     !.lastCoinX = worldX],
                    !.rng = NextRng(c.rng)]

\* update(): the spawn decisions and the terrain extension (lines 1878-1898)
SpawnX(g) == g.cameraX + CANVAS_WIDTH + SPAWN_AHEAD

\* the obstacle spawner without the spacing test of line 1880
SpawnObstaclesMut(c) == spawnObstacle(c, SpawnX(c.g))

Spacing(minGap) == minGap + (minGap * SpacingDraw) \div 100

SpawnObstacles(c) ==
  IF SpawnX(c.g) - c.g.lastObstacleX > Spacing(OBSTACLE_MIN_GAP)
  THEN spawnObstacle(c, SpawnX(c.g)) ELSE c

SpawnVines(c) ==
  IF SpawnX(c.g) - c.g.lastVineX > Spacing(VINE_MIN_GAP)
  THEN LET length == VINE_MIN_LENGTH + (VINE_EXTRA_LENGTH * Random(c.rng)) \div 100
           g1 == spawnVine(c.g, SpawnX(c.g), FALSE, length, VINE_ANGLE, VINE_ANCHOR_Y)
       IN IF g1 = c.g THEN c ELSE [c EXCEPT !.g = g1, !.rng = NextRng(c.rng)]
  ELSE c

SpawnCoins(c) ==
  IF SpawnX(c.g) - c.g.lastCoinX > Spacing(COIN_MIN_GAP)
  THEN spawnCoin(c, SpawnX(c.g), getTerrainHeight(c.g, SpawnX(c.g), FALSE))
  ELSE c

ExtendTerrain(c) ==
  IF c.g.nextTerrainX < SpawnX(c.g) + TERRAIN_AHEAD
  THEN [c EXCEPT !.g = generateTerrain(c.g, c.g.nextTerrainX, EXTEND_TERRAIN_COUNT, c.rng),
                 !.rng = AdvanceRng(c.rng, 2 * EXTEND_TERRAIN_COUNT)]
  ELSE c

CullTerrain(g) ==
  LET keep(seg) == seg.endX > g.cameraX - CULL_MARGIN
  IN [g EXCEPT !.terrain = SelectSeq(g.terrain, keep)]

CullTerrainOf(c) == [c EXCEPT !.g = CullTerrain(c.g)]

SpawnPhase(c) ==
  CullTerrainOf(ExtendTerrain(SpawnCoins(SpawnVines(SpawnObstacles(c)))))

----------------------------------------------------------------------------
(* update(): one frame                                                      *)

UpdateHead(g, r) ==
  Helicopter(Ctx(
    VictoryTrigger(CheckpointTrigger(AdvancePolice(TickInvincible(
      AccrueDistance(SlopePhysics([g EXCEPT !.frameCount = g.frameCount + 1])))))),
    r))

\* update(): the player's move, the vine grab and the cooldown (lines 1621-1812)
PlayerPhase(c) == [c EXCEPT !.g = TickCooldown(GrabVines(PlayerStep(c.g), 1))]

\* update(): culling, coins, particles and the camera (lines 1837-1876)
WorldPhase(c) ==
  [c EXCEPT !.g = CameraFollow(Cleanup(AgeParticles(CullCoins(
                    CollectCoins(CullVines(c.g), 1)))))]

UpdateBody(c) ==
  SpawnPhase(WorldPhase(FilterObstacles(PlayerPhase(c), 1, <<>>)))

\* update(): caught, fell, or the rest of the frame (lines 1610-1924)
UpdateTail(c) ==
  IF Caught(c.g) THEN gameOver([c EXCEPT !.g = createParticles(c.g)])
  ELSE IF Fell(c.g) THEN gameOver(c)
  ELSE UpdateBody(c)

\* update(): one frame, from the game and the stream position
update(g, r) == UpdateTail(UpdateHead(g, r))

----------------------------------------------------------------------------
(* The session: lifecycle commands, input intents, the frame loop           *)

Init ==
  /\ highScores = <<>>
  /\ nextId = 0
  /\ req = [route |-> "none", limit |-> "none", body |-> NoBody]
  /\ res = [status |-> 0, body |-> <<>>, error |-> "", details |-> {}]
  /\ invoked = "none"
  /\ game = InitialGame
  /\ rng \in 0..(Len(RandomStream) - 1)
  /\ gameState = "start"
  /\ inflight = 0
  /\ mutation = "idle"
  /\ raf = "none"
  /\ log = [respawns |-> 0, terminals |-> 0, ticks |-> 0, inputs |-> 0, sessions |-> 0]

\* startGame(): the Start / Restart / Try Again buttons and Enter on the start screen
CanStart == gameState \in {"start", "paused", "gameover"}

StartGame ==
  /\ CanStart
  /\ log.sessions < MaxSessions
  /\ game' = resetGame(game, rng)
  /\ rng' = AdvanceRng(rng, 2 * INITIAL_TERRAIN_COUNT)
  /\ gameState' = "playing"
  /\ log' = [log EXCEPT !.respawns = 0, !.terminals = 0, !.sessions = log.sessions + 1]
  /\ UNCHANGED <<inflight, mutation>>
  /\ raf' = "none"
  /\ UNCHANGED storeVars

\* togglePause(): Escape or the pause button while playing, Resume while paused
TogglePause ==
  /\ gameState \in {"playing", "paused"}
  /\ gameState' = IF gameState = "playing" THEN "paused" ELSE "playing"
  /\ UNCHANGED <<game, rng, inflight, mutation, log>>
  /\ UNCHANGED raf
  /\ UNCHANGED storeVars

\* handleKeyDown / handleKeyUp and the touch buttons
SetKey(up, down) ==
  /\ log.inputs < MaxInputs
  /\ game' = [game EXCEPT !.keys = [up |-> up, down |-> down]]
  /\ log' = [log EXCEPT !.inputs = log.inputs + 1]
  /\ UNCHANGED <<rng, gameState, inflight, mutation>>
  /\ UNCHANGED raf
  /\ UNCHANGED storeVars

PressUp == ~game.keys.up /\ SetKey(TRUE, game.keys.down)
ReleaseUp == game.keys.up /\ SetKey(FALSE, game.keys.down)
PressDown == ~game.keys.down /\ SetKey(game.keys.up, TRUE)
ReleaseDown == game.keys.down /\ SetKey(game.keys.up, FALSE)

\* gameLoop(): one animation frame while gameState is "playing"
TickMut ==
  /\ gameState \in {"playing", "paused"}
  /\ log.ticks < MaxFrames
  /\ \E c \in {update(game, rng)} :
       /\ game' = c.g
       /\ rng' = c.rng
       /\ gameState' = IF c.st = "playing" THEN gameState ELSE c.st
       /\ inflight' = inflight + c.subs
       /\ mutation' = IF c.subs > 0 THEN "pending" ELSE mutation
       /\ log' = [log EXCEPT !.respawns = log.respawns + c.respawns,
                              !.terminals = log.terminals + c.subs,
                              !.ticks = log.ticks + 1]
  /\ UNCHANGED raf
  /\ UNCHANGED storeVars

Tick ==
  /\ gameState = "playing"
  /\ log.ticks < MaxFrames
  /\ \E c \in {update(game, rng)} :
       /\ game' = c.g
       /\ rng' = c.rng
       /\ gameState' = c.st
       /\ inflight' = inflight + c.subs
       /\ mutation' = IF c.subs > 0 THEN "pending" ELSE mutation
       /\ log' = [log EXCEPT !.respawns = log.respawns + c.respawns,
                              !.terminals = log.terminals + c.subs,
                              !.ticks = log.ticks + 1]
  /\ UNCHANGED raf
  /\ UNCHANGED storeVars

\* the POST /api/highscores of a dispatched submission is answered
SubmitResolveMut(outcome) ==
  /\ inflight > 0
  /\ inflight' = inflight - 1
  /\ mutation' = outcome
  /\ gameState' = IF outcome = "error" THEN "playing" ELSE gameState
  /\ UNCHANGED <<game, rng, log>>
  /\ UNCHANGED raf
  /\ UNCHANGED storeVars

SubmitResolve(outcome) ==
  /\ inflight > 0
  /\ inflight' = inflight - 1
  /\ mutation' = outcome
  /\ UNCHANGED <<game, rng, gameState, log>>
  /\ UNCHANGED raf
  /\ UNCHANGED storeVars

SubmitSuccess == SubmitResolve("success")
SubmitError == SubmitResolve("error")

Next ==
  \/ StartGame
  \/ TogglePause
  \/ PressUp
  \/ ReleaseUp
  \/ PressDown
  \/ ReleaseDown
  \/ Tick
  \/ SubmitSuccess
  \/ SubmitError

Spec == Init /\ [][Next]_vars

----------------------------------------------------------------------------
(* The loop's last animation frame                                          *)
(*                                                                          *)
(* gameLoop() calls update(), render() and then requestAnimationFrame       *)
(* whatever update() did.  When update() ends the session, setGameState is  *)
(* only queued: the frame requested after it is cancelled by the cleanup of *)
(* the loop's effect, which runs once React has rendered the new gameState. *)
(* Nothing orders that cleanup before the browser's next frame.             *)

\* gameLoop(): one animation frame while gameState is "playing"; the frame
\* it requests outlives the session when update() has ended it
Frame ==
  /\ gameState = "playing"
  /\ log.ticks < MaxFrames
  /\ \E c \in {update(game, rng)} :
       /\ game' = c.g
       /\ rng' = c.rng
       /\ gameState' = c.st
       /\ inflight' = inflight + c.subs
       /\ mutation' = IF c.subs > 0 THEN "pending" ELSE mutation
       /\ raf' = IF c.st = "playing" THEN "none" ELSE "requested"
       /\ log' = [log EXCEPT !.respawns = log.respawns + c.respawns,
                              !.terminals = log.terminals + c.subs,
                              !.ticks = log.ticks + 1]
  /\ UNCHANGED storeVars

\* gameLoop(): the requested frame is delivered before the effect's cleanup
StaleFrame ==
  /\ raf = "requested"
  /\ log.ticks < MaxFrames
  /\ \E c \in {update(game, rng)} :
       /\ game' = c.g
       /\ rng' = c.rng
       /\ gameState' = IF c.st = "playing" THEN gameState ELSE c.st
       /\ inflight' = inflight + c.subs
       /\ mutation' = IF c.subs > 0 THEN "pending" ELSE mutation
       /\ log' = [log EXCEPT !.respawns = log.respawns + c.respawns,
                              !.terminals = log.terminals + c.subs,
                              !.ticks = log.ticks + 1]
  /\ UNCHANGED raf
  /\ UNCHANGED storeVars

\* the effect's cleanup: cancelAnimationFrame(animationId)
CancelFrame ==
  /\ raf = "requested"
  /\ raf' = "none"
  /\ UNCHANGED <<game, rng, gameState, inflight, mutation, log>>
  /\ UNCHANGED storeVars

NextRace ==
  \/ StartGame
  \/ TogglePause
  \/ PressUp
  \/ ReleaseUp
  \/ PressDown
  \/ ReleaseDown
  \/ Frame
  \/ StaleFrame
  \/ CancelFrame
  \/ SubmitSuccess
  \/ SubmitError

SpecRace == Init /\ [][NextRace]_vars

----------------------------------------------------------------------------
(* The leaderboard routes                                                   *)

\* GET /api/highscores?limit=q
GetRoute ==
  /\ \E q \in LimitParams :
       /\ req' = [route |-> "GET", limit |-> q, body |-> NoBody]
       /\ res' = [status |-> 200, body |-> GetHighScores(highScores, RouteLimit(q)),
                  error |-> "", details |-> {}]
  /\ invoked' = "getHighScores"
  /\ UNCHANGED <<highScores, nextId>>
  /\ UNCHANGED gameVars

\* POST /api/highscores with a body
PostRoute ==
  /\ \E body \in Bodies :
       /\ req' = [route |-> "POST", limit |-> "none", body |-> body]
       /\ IF ~safeParse(body)
          THEN /\ res' = [status |-> 400, body |-> <<>>, error |-> "Invalid score data",
                          details |-> Issues(body)]
               /\ invoked' = "none"
               /\ UNCHANGED <<highScores, nextId>>
          ELSE \E r \in {CreateHighScore(highScores, nextId, ParsedData(body))} :
                 /\ highScores' = r.store
                 /\ nextId' = r.ids
                 /\ res' = [status |-> 201, body |-> <<r.ret>>, error |-> "",
                            details |-> {}]
                 /\ invoked' = "createHighScore"
  /\ UNCHANGED gameVars

InitStore == Init /\ rng = 0

NextStore ==
  \/ GetRoute
  \/ PostRoute

SpecStore == InitStore /\ [][NextStore]_vars

----------------------------------------------------------------------------
(* Properties of the leaderboard service (under SpecStore)                  *)

SamePlayer(a, b) == toLowerCase(a) = toLowerCase(b)

Entry(id, ins) ==
  [id |-> id, playerName |-> ins.playerName, score |-> ins.score,
   distance |-> ins.distance, coins |-> ins.coins]

\* C2: createHighScore(s) leaves the store unchanged and returns the existing
\* entry when the player has an entry and s.score is not strictly higher;
\* replaces that entry by s under its old id when s.score is strictly higher;
\* and appends exactly one new entry holding s, under an id no entry has, when
\* the player has none.
C2_Upsert ==
  [][(req'.route = "POST" /\ invoked' = "createHighScore") =>
      LET ins == ParsedData(req'.body)
          existing == {i \in 1..Len(highScores) :
                         SamePlayer(highScores[i].playerName, ins.playerName)}
      IN /\ \A i \in existing :
              IF ins.score <= highScores[i].score
              THEN /\ highScores' = highScores
                   /\ res'.body = <<highScores[i]>>
              ELSE /\ highScores' = [highScores EXCEPT ![i] = Entry(highScores[i].id, ins)]
                   /\ res'.body = <<Entry(highScores[i].id, ins)>>
         /\ existing = {} =>
              /\ Len(highScores') = Len(highScores) + 1
              /\ SubSeq(highScores', 1, Len(highScores)) = highScores
              /\ highScores'[Len(highScores')] = Entry(highScores'[Len(highScores')].id, ins)
              /\ \A i \in 1..Len(highScores) :
                   highScores[i].id # highScores'[Len(highScores')].id
              /\ res'.body = <<highScores'[Len(highScores')]>>]_vars

\* a lower score was submitted for a stored player and the stored entry came back
C2_Witness ==
  /\ req.route = "POST" /\ invoked = "createHighScore"
  /\ Len(highScores) >= 2
  /\ res.body[1].score > req.body.score.n
  /\ res.body[1] = highScores[2]

\* C3: a leaderboard query with limit >= 1 (10 when the request gives none)
\* returns at most limit entries, in non-increasing order of score, and no
\* stored entry it leaves out scores strictly higher than a returned one.
C3_TopScores ==
  (req.route = "GET" /\ req.limit \in {"none", "1", "2", "3", "5"}) =>
    LET limit == IF req.limit = "none" THEN 10 ELSE parseInt(req.limit).n
        out == res.body
        returned == {out[i] : i \in 1..Len(out)}
        leftOut == {highScores[i] : i \in 1..Len(highScores)} \ returned
    IN /\ res.status = 200
       /\ Len(out) <= limit
       /\ \A i \in 1..(Len(out) - 1) : out[i].score >= out[i + 1].score
       /\ \A e \in leftOut : \A r \in returned : e.score <= r.score
       /\ returned \subseteq {highScores[i] : i \in 1..Len(highScores)}

\* three entries stored out of order, the top two asked for
C3_Witness ==
  /\ req.route = "GET" /\ req.limit = "2"
  /\ Len(highScores) = 3 /\ Len(res.body) = 2
  /\ highScores[1].score < highScores[3].score
  /\ highScores[2].score < highScores[3].score

\* a body is malformed when a field is missing or of the wrong type, or the
\* score is negative
Malformed(body) ==
  \/ Issues(body) # {}
  \/ body.score.n < 0

\* C4: a POST with malformed score data (negative score, missing player name)
\* is answered 400 with error details and does not reach createHighScore.
C4_MalformedRejected ==
  (req.route = "POST" /\ Malformed(req.body)) =>
    /\ res.status = 400
    /\ res.details # {}
    /\ invoked = "none"

----------------------------------------------------------------------------
(* Properties of the session (under Spec)                                   *)

\* the step is a frame of the running session
TickStep == log'.ticks = log.ticks + 1
\* the step starts a session
StartStep == log'.sessions = log.sessions + 1
\* gameOver() ran in the step (it respawned or it ended the session)
TerminalStep ==
  /\ TickStep
  /\ log'.respawns + log'.terminals > log.respawns + log.terminals
RespawnStep == TickStep /\ log'.respawns > log.respawns

\* the simulation state: gameRef without the input intents
Sim(g) == [g EXCEPT !.keys = [up |-> FALSE, down |-> FALSE]]

\* C1: in a session gameOver() respawns at most once; it respawns only at a
\* terminal event with checkPointReached true and checkPointUsed false; every
\* terminal event after checkPointUsed has become true ends in "gameover".
C1_RespawnOnce ==
  [][/\ log'.respawns <= 1
     /\ RespawnStep =>
          /\ game'.checkPointReached
          /\ ~game.checkPointUsed /\ game'.checkPointUsed
     /\ (TerminalStep /\ game.checkPointUsed) =>
          /\ gameState' = "gameover"
          /\ log'.respawns = log.respawns]_vars

\* the session respawned once and a later terminal event ended it
C1_Witness ==
  /\ gameState = "gameover"
  /\ log.respawns = 1
  /\ game.checkPointUsed

\* C5: a terminal event that does not respawn sets "gameover" in the step
\* that dispatches the submission; no answer to a submission (success, error,
\* none) changes gameState, score, distance or coins; and a session can be
\* started from "gameover" whatever the submissions do.
C5_GameOverRegardless ==
  [][/\ (TickStep /\ log'.terminals > log.terminals) =>
          /\ gameState' = "gameover"
          /\ inflight' > inflight
     /\ inflight' > inflight => gameState' = "gameover"
     /\ inflight' < inflight =>
          /\ gameState' = gameState
          /\ game' = game
     /\ gameState = "gameover" => CanStart]_vars

\* a second session is running while the submission of the first one is
\* still unanswered, or after it has failed
C5_Witness ==
  /\ gameState = "playing"
  /\ log.sessions = 2
  /\ (inflight = 1 \/ mutation = "error")
  /\ game.frameCount > 0

\* C6: while gameState is "paused" no frame runs and the simulation state does
\* not change, up to and including the step that resumes.
C6_PausedFrozen ==
  [][(gameState = "paused" /\ ~StartStep) =>
       /\ ~TickStep
       /\ Sim(game') = Sim(game)
       /\ rng' = rng]_vars

\* a session paused in mid-run
C6_Witness ==
  /\ gameState = "paused"
  /\ game.frameCount > 2
  /\ game.player.state # "running"

\* C7: startGame() yields the initial simulation state and nothing of the
\* previous session, held input intents included, carries over.
C7_FreshStart ==
  [][StartStep =>
       /\ game'.player = InitialPlayer
       /\ game'.police = InitialPolice
       /\ game'.cameraX = 0
       /\ game'.distanceTraveled = 0 /\ game'.scoreValue = 0 /\ game'.coinsCollected = 0
       /\ game'.frameCount = 0
       /\ game'.vineSwingTime = 0 /\ game'.vineGrabCooldown = 0 /\ game'.glideSeconds = 0
       /\ ~game'.checkPointReached /\ ~game'.checkPointUsed
       /\ game'.plane.state = "hidden"
       /\ game'.obstacles = <<>> /\ game'.vines = <<>> /\ game'.coinsList = <<>>
       /\ game'.particles = {}
       /\ Len(game'.terrain) = INITIAL_TERRAIN_COUNT /\ game'.terrain[1].startX = 0
       /\ game'.keys = [up |-> FALSE, down |-> FALSE]]_vars

\* C8: within a session police.speed does not decrease from frame to frame.
C8_PoliceSpeedMonotonic ==
  [][~StartStep => game'.police.speed >= game.police.speed]_vars

\* the police sped up in a session that respawned
C8_Witness ==
  /\ game.police.speed > POLICE_SPEED
  /\ log.respawns = 1

\* C9: within a session the score, the distance and the coin count do not
\* decrease from frame to frame.
C9_ScoreMonotonic ==
  [][~StartStep =>
       /\ game'.scoreValue >= game.scoreValue
       /\ game'.distanceTraveled >= game.distanceTraveled
       /\ game'.coinsCollected >= game.coinsCollected]_vars

\* a session that has scored by distance and by coins
C9_Witness ==
  /\ game.coinsCollected > 0
  /\ game.scoreValue > game.coinsCollected * SCORE_PER_COIN

\* the chasms among a sequence of obstacles: the gaps at least 800 px wide
Chasms(obstacles) ==
  {obstacles[i] : i \in {j \in 1..Len(obstacles) :
                           /\ obstacles[j].type = "gap"
                           /\ obstacles[j].width >= CHASM_MIN_WIDTH}}

VineXs(vines) == {vines[i].x : i \in 1..Len(vines)}

\* C10: a chasm is spawned in one step with its warning marker and two vines,
\* 140 px before its near edge and at 45% of its width; and while a chasm is
\* live and the player is short of its near edge, a live vine hangs at an x in
\* [chasm.x - 140, chasm.x + chasm.width].
C10_ChasmVines ==
  [][/\ \A ch \in Chasms(game'.obstacles) \ Chasms(game.obstacles) :
          \E i, j \in 1..Len(game'.vines) :
            /\ i # j
            /\ game'.vines[i] \notin {game.vines[k] : k \in 1..Len(game.vines)}
            /\ game'.vines[j] \notin {game.vines[k] : k \in 1..Len(game.vines)}
            /\ game'.vines[i].x = ch.x - CHASM_VINE_BEFORE
            /\ game'.vines[j].x = ch.x + RoundDiv(ch.width * CHASM_VINE_PERCENT, 100)
            /\ \E k \in 1..Len(game'.obstacles) :
                 /\ game'.obstacles[k].type = "warning"
                 /\ game'.obstacles[k].x = ch.x - CHASM_LEAD
     /\ \A ch \in Chasms(game'.obstacles) :
          game'.player.x + game'.player.width < ch.x =>
            \E x \in VineXs(game'.vines) :
              x >= ch.x - CHASM_VINE_BEFORE /\ x <= ch.x + ch.width]_vars

\* the player runs up to a live chasm whose two vines hang ahead
C10_Witness ==
  \E ch \in Chasms(game.obstacles) :
    /\ game.player.x + game.player.width < ch.x
    /\ ch.x - game.player.x < CHASM_LEAD
    /\ ch.x - CHASM_VINE_BEFORE \in VineXs(game.vines)
    /\ ch.x + RoundDiv(ch.width * CHASM_VINE_PERCENT, 100) \in VineXs(game.vines)

\* C11: no live vine is anchored inside the clearance buffer of a live low
\* beam (220) or spike (260), whichever was spawned first.
C11_VineClearance ==
  \A i \in 1..Len(game.vines) : \A j \in 1..Len(game.obstacles) :
    /\ game.obstacles[j].type = "low_beam"
         => ~Near(game.obstacles[j], game.vines[i].x, VINE_WALL_BUFFER)
    /\ game.obstacles[j].type = "spike"
         => ~Near(game.obstacles[j], game.vines[i].x, VINE_SPIKE_BUFFER)

\* C12: every live terrain segment has both end heights in the band [280, 400]
\* and adjacent live segments meet: the end height of segment i is the start
\* height of segment i + 1, also after spawnObstacle has flattened segments.
C12_TerrainContinuity ==
  /\ \A i \in 1..Len(game.terrain) :
       /\ game.terrain[i].startY \in TERRAIN_MIN_Y..TERRAIN_MAX_Y
       /\ game.terrain[i].endY \in TERRAIN_MIN_Y..TERRAIN_MAX_Y
  /\ \A i \in 1..(Len(game.terrain) - 1) :
       game.terrain[i].endY = game.terrain[i + 1].startY

\* the right end of the generated terrain
TerrainEnd ==
  IF game.terrain = <<>> THEN 0 ELSE game.terrain[Len(game.terrain)].endX

\* C13: after every frame of a running session, also once the victory distance
\* has been reached, the generated terrain ends beyond the camera's right edge
\* (the weakest lookahead, 0).
C13_TerrainAhead ==
  (gameState = "playing" /\ game.frameCount > 0)
     => TerrainEnd >= game.cameraX + CANVAS_WIDTH

\* C14: the player's state and height agree: sliding has SLIDE_HEIGHT, and
\* running, jumping and falling have PLAYER_HEIGHT.
C14_StateHeight ==
  /\ game.player.state = "sliding" => game.player.height = SLIDE_HEIGHT
  /\ game.player.state \in {"running", "jumping", "falling"}
       => game.player.height = PLAYER_HEIGHT

\* a frame in which the swinging player lets go of its vine
ReleaseStep ==
  /\ TickStep
  /\ game.player.state = "swinging" /\ game.player.onVine # NoVine
  /\ game'.player.onVine = NoVine

\* C15: when the player lets go of a vine the grab cooldown is still positive,
\* so that nothing can be grabbed in the next frame.
C15_CooldownAfterRelease ==
  [][ReleaseStep => game'.vineGrabCooldown > 0]_vars

\* C16: a checkpoint respawn never moves the police forward: police.x after
\* the respawn is at most police.x right before it, which is the x of the
\* frame before plus this frame's advance (lines 1544-1547).
C16_RespawnPushesBack ==
  [][RespawnStep => game'.police.x <= game.police.x + game'.police.speed]_vars

\* C17: right after a checkpoint respawn the player is not over a live gap or
\* chasm and stands above the terrain height at its centre.
C17_RespawnSafe ==
  [][RespawnStep =>
       /\ ~OverGap(game')
       /\ game'.player.y + game'.player.height
            <= getTerrainHeight(game', game'.player.x + game'.player.width \div 2, FALSE)]_vars


\* the player's box meets the obstacle's hit area (checkCollision's geometry,
\* the invincibility test left aside)
Overlaps(g, obs) == checkCollision([g EXCEPT !.player.invincible = 0], obs)
\* the player's centre is within the pickup radius of the coin
InRadius(p, coin) ==
  LET dx == (p.x + p.width \div 2) - coin.x
      dy == (p.y + p.height \div 2) - coin.y
  IN dx * dx + dy * dy < COIN_RADIUS * COIN_RADIUS
\* the coins the player picks up at the end of the step
Pickups ==
  {i \in 1..Len(game.coinsList) :
     ~game.coinsList[i].collected /\ InRadius(game'.player, game.coinsList[i])}

\* C18: the invincibility timer never goes below 0 and, while positive, loses
\* exactly 1 per frame; in a frame whose collision checks run with the timer
\* still positive, and in which the player is neither caught nor fallen off
\* the screen, gameOver() does not run (no terminal event, no respawn), the
\* player is exactly where its own move put it (no wall knockback), and every
\* uncollected coin within the pickup radius is collected
C18_Invincibility ==
  [][TickStep =>
       /\ game'.player.invincible >= 0
       /\ (game.player.invincible > 0 /\ ~RespawnStep)
            => game'.player.invincible = game.player.invincible - 1
       /\ (/\ game.player.invincible > 1
           /\ ~Caught(UpdateHead(game, rng).g)
           /\ ~Fell(UpdateHead(game, rng).g))
            => /\ ~TerminalStep
               /\ game'.player = PlayerPhase(UpdateHead(game, rng)).g.player
               /\ game'.coinsCollected = game.coinsCollected + Cardinality(Pickups)
    ]_vars
C18_Witness ==
  /\ gameState = "playing"
  /\ game.player.invincible > 0
  /\ \E j \in 1..Len(game.obstacles) :
       /\ game.obstacles[j].type \in {"low_beam", "spike"}
       /\ Overlaps(game, game.obstacles[j])



\* checkCollision() is true of the low overhead wall at index j of the game m
WallContact(m, j) ==
  /\ m.obstacles[j].type = "low_beam"
  /\ checkCollision(m, m.obstacles[j])
\* the outcome of the frame for the player's touching the wall at index j of
\* m, the game after the player's own move of the frame
WallOutcome(m, j) ==
  /\ ~TerminalStep
  /\ gameState' = "playing"
  /\ game'.player.vx = WALL_HIT_SPEED
  /\ game'.player.x = m.player.x - WALL_KNOCKBACK
  /\ \E k \in 1..Len(game'.obstacles) : game'.obstacles[k] = m.obstacles[j]
\* the frame of a head h that reaches the obstacle filter
WallFrame(h) ==
  (~Caught(h.g) /\ ~Fell(h.g))
    => \A m \in {PlayerPhase(h).g} : \A j \in 1..Len(m.obstacles) :
         WallContact(m, j) => WallOutcome(m, j)

\* C19: in a frame in which the player touches a low overhead wall gameOver()
\* does not run (no terminal event, no respawn), the player's vx ends at
\* WALL_HIT_SPEED, its x ends WALL_KNOCKBACK behind where its move put it, and
\* the wall is still in game.obstacles
C19_WallKnockback ==
  [][TickStep => WallFrame(UpdateHead(game, rng))]_vars
C19_Witness ==
  /\ gameState = "playing"
  /\ game.player.vx = WALL_HIT_SPEED
  /\ game.player.invincible = 0
  /\ \E j \in 1..Len(game.obstacles) :
       /\ game.obstacles[j].type = "low_beam"
       /\ game.obstacles[j].x - (game.player.x + game.player.width)
            \in 0..WALL_KNOCKBACK


\* the step is a frame that starts with the player swinging on a vine
SwingFrame ==
  TickStep /\ game.player.state = "swinging" /\ game.player.onVine # NoVine
\* the step is a frame in which the player grabs a vine
GrabFrame ==
  /\ TickStep
  /\ game.player.state # "swinging"
  /\ game'.player.state = "swinging"
  /\ game'.player.onVine # NoVine

CentreX(g) == g.player.x + g.player.width \div 2
\* the player stands on the drawn terrain: y snapped to the ground height
\* with vy 0
Clamped(g) ==
  /\ g.player.vy = 0
  /\ g.player.y = getTerrainHeight(g, CentreX(g), TRUE)
                    - (IF g.player.state = "sliding" THEN SLIDE_HEIGHT
                       ELSE PLAYER_HEIGHT)
\* the player is not swinging and its centre is inside a live gap
InPit(g) == g.player.state # "swinging" /\ InGap(g, CentreX(g))

RampTop(g, obs) ==
  getTerrainHeight(g, obs.x + obs.width \div 2, FALSE)
    - RoundDiv((CentreX(g) - obs.x) * obs.height, obs.width)
\* the player rests, with vy 0, on the top of a ramp
OnRampTop(g) ==
  /\ g.player.vy = 0
  /\ \E i \in 1..Len(g.obstacles) :
       /\ g.obstacles[i].type = "ramp"
       /\ CentreX(g) > g.obstacles[i].x
       /\ CentreX(g) < g.obstacles[i].x + g.obstacles[i].width
       /\ g.player.y + g.player.height = RampTop(g, g.obstacles[i])
\* the player rests, with vy 0, on the terrain
OnTerrain(g) ==
  /\ g.player.vy = 0
  /\ ~InGap(g, CentreX(g))
  /\ g.player.y + g.player.height = getTerrainHeight(g, CentreX(g), FALSE)

\* C22: a frame without gameOver() that a jumping or falling player ends
\* resting on the terrain or on the top of a ramp leaves it "sliding" if
\* keys.down is held and "running" otherwise, with vy 0
C22_Landing ==
  [][(/\ TickStep /\ ~TerminalStep
      /\ game.player.state \in {"jumping", "falling"}
      /\ OnTerrain(game') \/ OnRampTop(game'))
       => /\ game'.player.vy = 0
          /\ game'.player.state = IF game.keys.down THEN "sliding" ELSE "running"
    ]_vars


\* C23: after every frame of a session the score is the distance times
\* SCORE_PER_DISTANCE plus the coins times SCORE_PER_COIN, on the distance and
\* the coin count the frame ends with
C23_ScoreFormula ==
  game.frameCount > 0
    => game.scoreValue = game.distanceTraveled * SCORE_PER_DISTANCE
                           + game.coinsCollected * SCORE_PER_COIN


\* C24: the frame moves the player before it advances and tests the pursuer
\* and before it checks the terminal conditions, so that the checks see the
\* positions of the same frame: a frame in which gameOver() does not run
\* leaves the player neither caught nor fallen below the canvas
C24_TerminalSeesFrame ==
  [][(TickStep /\ ~TerminalStep) => (~Caught(game') /\ ~Fell(game'))]_vars


\* the end of the obstacle at index i of game.obstacles
ObstacleEnd(i) == game.obstacles[i].x + game.obstacles[i].width

\* C25: a frame that spawns an obstacle puts it more than OBSTACLE_MIN_GAP
\* past the end of the obstacle spawned before it; of every two live
\* obstacles the later one starts more than OBSTACLE_MIN_GAP after the
\* earlier one ends, a chasm after its own warning marker excepted, which
\* starts after the marker's end; no obstacle reaches past lastObstacleX
C25_ObstacleSpacing ==
  /\ \A i \in 1..Len(game.obstacles) : ObstacleEnd(i) <= game.lastObstacleX
  /\ \A i \in 1..Len(game.obstacles) : \A j \in 1..Len(game.obstacles) :
       i < j =>
         IF game.obstacles[i].type = "warning" /\ j = i + 1
         THEN game.obstacles[j].x >= ObstacleEnd(i)
         ELSE game.obstacles[j].x > ObstacleEnd(i) + OBSTACLE_MIN_GAP
\* three live obstacles, the last two as close as the spacing admits
C25_Witness ==
  /\ Len(game.obstacles) >= 3
  /\ \E i \in 1..Len(game.obstacles) - 1 :
       /\ game.obstacles[i].type # "warning"
       /\ game.obstacles[i + 1].x - ObstacleEnd(i) <= OBSTACLE_MIN_GAP + 10


\* player.x - police.x, in tenths of a cell
PursuitGap(g) == g.player.x * 10 - g.police.x
\* the least the gap closes in a frame at PLAYER_BASE_SPEED, in tenths of a
\* cell: POLICE_SPEED less ten times PLAYER_BASE_SPEED
CLOSING == POLICE_SPEED - 10 * PLAYER_BASE_SPEED
\* the step is a frame without gameOver() in which the player advances by
\* PLAYER_BASE_SPEED at most
CruiseFrame ==
  /\ TickStep /\ ~TerminalStep
  /\ game'.player.x - game.player.x <= PLAYER_BASE_SPEED

C27_VineIffSwinging ==
  gameState \in {"playing", "paused"} =>
    /\ (game.player.onVine # NoVine) <=> (game.player.state = "swinging")
    /\ game.player.onVine # NoVine
         => \E i \in 1..Len(game.vines) : game.vines[i] = game.player.onVine


\* C28: between a start and the next one gameOver() dispatches the score and
\* ends the session at most once
C28_SubmitOnce == log.terminals <= 1


\* the entries of a store held under the player name
Held(scores, name) ==
  {i \in 1..Len(scores) : SamePlayer(scores[i].playerName, name)}
\* no two entries of the store share a player name, letter case aside, or an id
OnePerPlayer(scores) ==
  \A i \in 1..Len(scores) : \A j \in 1..Len(scores) :
    i # j => /\ ~SamePlayer(scores[i].playerName, scores[j].playerName)
             /\ scores[i].id # scores[j].id

\* C29: the store holds one entry per player name, letter case aside; every
\* step keeps each entry's id and player, never lowers its score, and a
\* createHighScore(s) leaves the entry of s's player with the higher of s.score
\* and the score held before (s.score for a new player): by induction each
\* entry has the first id and the highest score submitted under its name
C29_BestPerPlayer ==
  [][/\ OnePerPlayer(highScores')
     /\ Len(highScores') >= Len(highScores)
     /\ \A i \in 1..Len(highScores) :
          /\ highScores'[i].id = highScores[i].id
          /\ SamePlayer(highScores'[i].playerName, highScores[i].playerName)
          /\ highScores'[i].score >= highScores[i].score
     /\ (req'.route = "POST" /\ invoked' = "createHighScore") =>
          LET ins == ParsedData(req'.body)
          IN /\ Cardinality(Held(highScores', ins.playerName)) = 1
             /\ \A i \in Held(highScores', ins.playerName) :
                  /\ highScores'[i].score >= ins.score
                  /\ Held(highScores, ins.playerName) = {}
                       => highScores'[i].score = ins.score
                  /\ \A j \in Held(highScores, ins.playerName) :
                       highScores'[i].score \in {ins.score, highScores[j].score}
             /\ \A i \in 1..Len(highScores') :
                  i \notin Held(highScores', ins.playerName)
                    => i <= Len(highScores) /\ highScores'[i] = highScores[i]
    ]_vars
\* a lower score came in under another spelling of a stored player's name
C29_Witness ==
  /\ req.route = "POST" /\ invoked = "createHighScore"
  /\ Len(highScores) >= 2
  /\ \E i \in 1..Len(highScores) :
       /\ highScores[i].playerName # req.body.playerName.s
       /\ SamePlayer(highScores[i].playerName, req.body.playerName.s)
       /\ highScores[i].score > req.body.score.n


\* C30: the helicopter comes to rest, in state "waiting", ahead of the player
\* and within the visible area, where a jump can reach its boarding zone
C30_HelicopterAhead ==
  game.plane.state = "waiting" =>
    /\ game.plane.x >= game.player.x
    /\ game.plane.x >= game.cameraX
    /\ game.plane.x <= game.cameraX + CANVAS_WIDTH

====
